---- MODULE Spec2Model ----
(***************************************************************************)
(* Model of the stitch-images request handler of pdf2limage                *)
(* (src/src/app/api/stitch-images/route.ts): the adaptive compression      *)
(* search findOptimalQuality, the encode step createStitchedImage with its *)
(* scratch and final files, and the response the handler builds.           *)
(***************************************************************************)
EXTENDS Integers, Sequences, FiniteSets, TLC

\* ------------------------------------------------------------------------
\* Program constants (route.ts:11-13)
\* ------------------------------------------------------------------------
MIN_QUALITY == 60

MAX_FILE_SIZE_BYTES == 4 * 1024 * 1024

\* ------------------------------------------------------------------------
\* Bounds of the model
\* ------------------------------------------------------------------------
\* The requested start quality ranges over MIN_QUALITY-1 .. MIN_QUALITY+MaxSpan.
MaxSpan == 7

\* Requested qualities: one value below the floor, the floor, and up.
StartQualities == (MIN_QUALITY - 1)..(MIN_QUALITY + MaxSpan)

\* Encoded sizes the encoder may produce: just under, exactly at and just
\* over the ceiling.
Sizes == {MAX_FILE_SIZE_BYTES - 1, MAX_FILE_SIZE_BYTES, MAX_FILE_SIZE_BYTES + 1}

\* The most page images one request submits.
MaxPages == 3

\* The qualities a request with start quality q can ever encode at.
Touched(q) == (MIN_QUALITY..q) \cup {q, MIN_QUALITY}

VARIABLES
    quality,            \* start quality parsed from the request (line 120)
    sizeOf,             \* the encoder: quality -> byte size of the encoded PNG
    pc,                 \* position of the handler
    low, high,          \* search bounds of findOptimalQuality
    bestQuality,        \* findOptimalQuality's bestQuality
    bestFileSize,       \* findOptimalQuality's bestFileSize
    attempts,           \* history: every createStitchedImage call, in order
    tempFile,           \* `${outputPath}.temp.png`: {} or {quality it encodes}
    outputFile,         \* outputPath: {} or {quality it encodes}
    compressionResult,  \* what findOptimalQuality returned
    response,           \* the HTTP response of the handler
    savedImages,        \* the uploaded page files, in upload order (lines 153-161)
    imageDetails,       \* imageDetails (lines 174-202)
    metadataFailed,     \* history: some sharp(imagePath).metadata() call threw
    maxWidth,           \* line 205
    totalHeight,        \* line 209
    compositeImages,    \* lines 220-237
    requests,           \* two stitch requests in flight: what each holds
    files,              \* the files under the temp directory and their writers
    vercel,             \* process.env.VERCEL is set
    sessionId,          \* the sessionId field of the request ("" when absent)
    pageFiles,          \* names of the request's saved page files still on disk
    delivered,          \* what the caller of the handler receives
    served,             \* a serve-image request: its path and its answer
    upload              \* an upload-image request: its fields and its progress

\* The state of the page pipeline before the encodes.
pageVars == <<savedImages, imageDetails, metadataFailed, maxWidth, totalHeight,
              compositeImages>>

\* The state shared by two requests in flight.
concVars == <<requests, files>>

\* The deployment, the delivery of the response and the other two endpoints.
restVars == <<vercel, sessionId, delivered, served, upload>>

vars == <<quality, sizeOf, pc, low, high, bestQuality, bestFileSize, attempts,
          tempFile, outputFile, compressionResult, response, pageVars, concVars, restVars, pageFiles>>

\* ------------------------------------------------------------------------
\* createStitchedImage (route.ts:240-309)
\* ------------------------------------------------------------------------
\* The size test with the ceiling itself excluded (< for <=).
SuccessStrict(fileSize) == fileSize < MAX_FILE_SIZE_BYTES

\* line 294: the size test
Success(fileSize) == fileSize <= MAX_FILE_SIZE_BYTES

\* The file a composite input names: the last upload written under that name
\* (line 157 overwrites an earlier file of the same name).
FileOf(name) ==
    LET idx == {i \in 1..Len(savedImages) : savedImages[i].name = name}
    IN savedImages[CHOOSE i \in idx : \A j \in idx : j <= i]

\* What sharp accepts at lines 275-286: a canvas of positive width and height,
\* and no composite input larger than the canvas. An input that fits the
\* canvas but is placed partly or wholly outside it is clipped, not refused.
SharpAccepts ==
    /\ maxWidth > 0
    /\ totalHeight > 0
    /\ \A i \in 1..Len(compositeImages) :
         /\ FileOf(compositeImages[i].input).width <= maxWidth
         /\ FileOf(compositeImages[i].input).height <= totalHeight

\* createStitchedImage whose catch block swallows a failed final write and
\* reports the encode as a success.
CreateStitchedImageSwallow(q, temp, out) ==
    LET fileSize == sizeOf[q] IN
    {[threw |-> TRUE, success |-> FALSE, quality |-> q, fileSize |-> 0,
      tempFile |-> temp, outputFile |-> out, fault |-> "toFile"]}
    \cup
    (IF ~SharpAccepts THEN {}
     ELSE IF fileSize <= MAX_FILE_SIZE_BYTES
       THEN {[threw |-> FALSE, success |-> TRUE, quality |-> q,
              fileSize |-> fileSize, tempFile |-> {}, outputFile |-> {q},
              fault |-> "none"],
             [threw |-> FALSE, success |-> TRUE, quality |-> q,
              fileSize |-> fileSize, tempFile |-> {q}, outputFile |-> out,
              fault |-> "writeFile"],
             [threw |-> TRUE, success |-> FALSE, quality |-> q, fileSize |-> 0,
              tempFile |-> {q}, outputFile |-> {q}, fault |-> "unlink"]}
       ELSE {[threw |-> FALSE, success |-> FALSE, quality |-> q,
              fileSize |-> fileSize, tempFile |-> {q}, outputFile |-> out,
              fault |-> "none"]})

\* Every way one call createStitchedImage(q) can end, given the files on disk.
\*  - sharp(...).toFile throws (line 286, always so when sharp refuses the
\*    composite): nothing is written, the call throws;
\*  - the encode fits (line 294): it is copied to outputPath and the scratch
\*    file is unlinked (lines 296-301), unless writeFile or unlink throws;
\*  - the encode is too large: {success: false} is returned (line 304) and the
\*    scratch file stays where toFile wrote it.
CreateStitchedImage(q, temp, out) ==
    LET fileSize == sizeOf[q] IN
    {[threw |-> TRUE, success |-> FALSE, quality |-> q, fileSize |-> 0,
      tempFile |-> temp, outputFile |-> out, fault |-> "toFile"]}
    \cup
    (IF ~SharpAccepts THEN {}
     ELSE IF Success(fileSize)
       THEN {[threw |-> FALSE, success |-> TRUE, quality |-> q,
              fileSize |-> fileSize, tempFile |-> {}, outputFile |-> {q},
              fault |-> "none"],
             \* writeFile(outputPath) throws: scratch written, final not
             [threw |-> TRUE, success |-> FALSE, quality |-> q, fileSize |-> 0,
              tempFile |-> {q}, outputFile |-> out, fault |-> "writeFile"],
             \* unlink(outputTempPath) throws: both files present
             [threw |-> TRUE, success |-> FALSE, quality |-> q, fileSize |-> 0,
              tempFile |-> {q}, outputFile |-> {q}, fault |-> "unlink"]}
       ELSE {[threw |-> FALSE, success |-> FALSE, quality |-> q,
              fileSize |-> fileSize, tempFile |-> {q}, outputFile |-> out,
              fault |-> "none"]})

\* ------------------------------------------------------------------------
\* findOptimalQuality (route.ts:312-359)
\* ------------------------------------------------------------------------
\* line 327
Mid(lo, hi) == (lo + hi) \div 2

\* line 329: if (mid === bestQuality) break
BreakGuard(mid, best) == mid = best

\* The success branch that neither records mid as best nor steps past it.
OnSuccessStale(mid, fileSize, lo, hi, best) ==
    [bestQuality |-> best, bestFileSize |-> fileSize, low |-> mid, high |-> hi]

\* lines 333-337: the success branch of the loop body
OnSuccess(mid, fileSize, lo, hi, best) ==
    [bestQuality |-> mid, bestFileSize |-> fileSize, low |-> mid + 1, high |-> hi]

\* The failure branch that lowers high by one instead of to below mid.
OnFailureLinear(mid, lo, hi, best, bestSize) ==
    [bestQuality |-> best, bestFileSize |-> bestSize, low |-> lo, high |-> hi - 1]

\* lines 338-341: the failure branch of the loop body
OnFailure(mid, lo, hi, best, bestSize) ==
    [bestQuality |-> best, bestFileSize |-> bestSize, low |-> lo, high |-> mid - 1]

\* line 345
FoundBest(best) == best >= MIN_QUALITY

\* line 347
NeedsReencode(best, hi) == best # hi

\* line 322: the early return
EarlyResult(hi, fileSize) == [quality |-> hi, fileSize |-> fileSize]

\* The return after the search that reports the upper bound, not the best.
SearchResultHigh(best, bestSize) == [quality |-> high, fileSize |-> bestSize]

\* line 352: the return after the search
SearchResult(best, bestSize) == [quality |-> best, fileSize |-> bestSize]

\* line 358: the fallback return
FallbackResult(fileSize) == [quality |-> MIN_QUALITY, fileSize |-> fileSize]

\* line 364: (fileSize / 1024 / 1024).toFixed(2), in hundredths of a MiB
SizeMB(fileSize) == (fileSize * 200 + 1024 * 1024) \div (2 * 1024 * 1024)

NoResult == [quality |-> 0, fileSize |-> 0]

NoResponse == [status |-> 0, quality |-> 0, fileSize |-> 0]

\* The handler's promise has not settled.
NotDelivered == "pending"

\* No serve-image request has been answered.
NoServe == [path |-> <<>>, status |-> 0, file |-> <<>>]

\* No upload-image request is in progress.
NoUpload == [pc |-> "idle"]

\* One entry of the history: which call it was, at what quality, how it ended.
Attempt(phase, r) ==
    [phase |-> phase, quality |-> r.quality, success |-> r.success,
     threw |-> r.threw, fault |-> r.fault]

\* ------------------------------------------------------------------------
\* Page names and their order (route.ts:191-202)
\* ------------------------------------------------------------------------
\* A name is the sequence of its character codes.
\* 'lastpic.png'
Trailer == <<108, 97, 115, 116, 112, 105, 99, 46, 112, 110, 103>>

\* Primary collation weight of a character of [A-Za-z0-9.-]: letters compare
\* alphabetically whatever their case, after digits and punctuation.
Primary(c) == IF c \in 65..90 THEN c + 32 ELSE c

\* Tertiary (case) weight: lower case before upper case.
Tertiary(c) == IF c \in 65..90 THEN 1 ELSE 0

Sign(n) == IF n < 0 THEN -1 ELSE IF n > 0 THEN 1 ELSE 0

\* Lexicographic three-way comparison of two weight sequences.
RECURSIVE LexCompare(_, _, _)
LexCompare(x, y, i) ==
    IF i > Len(x) /\ i > Len(y) THEN 0
    ELSE IF i > Len(x) THEN -1
    ELSE IF i > Len(y) THEN 1
    ELSE IF x[i] # y[i] THEN Sign(x[i] - y[i])
    ELSE LexCompare(x, y, i + 1)

\* Comparison by character code.
CodePointCompare(a, b) == LexCompare(a, b, 1)

\* String.prototype.localeCompare (line 201) on names over [A-Za-z0-9.-]:
\* the primary weights of the whole strings decide; case breaks ties.
LocaleCompare(a, b) ==
    LET pa == [i \in 1..Len(a) |-> Primary(a[i])]
        pb == [i \in 1..Len(b) |-> Primary(b[i])]
        p  == LexCompare(pa, pb, 1)
    IN IF p # 0 THEN p
       ELSE LexCompare([i \in 1..Len(a) |-> Tertiary(a[i])],
                       [i \in 1..Len(b) |-> Tertiary(b[i])], 1)

\* The comparator with the trailer name ranked by collation like any other.
SortCompareNoTrailer(a, b) == LocaleCompare(a.name, b.name)

\* The comparator that answers "less" whenever a side is the trailer.
SortCompareTrailerLess(a, b) ==
    IF a.name = Trailer THEN -1
    ELSE IF b.name = Trailer THEN -1
    ELSE LocaleCompare(a.name, b.name)

\* The comparator with its arguments exchanged (descending order).
SortCompareDescending(a, b) ==
    IF a.name = Trailer THEN 1
    ELSE IF b.name = Trailer THEN -1
    ELSE LocaleCompare(b.name, a.name)

\* lines 192-202: the comparator handed to imageDetails.sort
SortCompare(a, b) ==
    IF a.name = Trailer THEN 1
    ELSE IF b.name = Trailer THEN -1
    ELSE LocaleCompare(a.name, b.name)

\* Array.prototype.sort as the runtime (V8) runs it on an array shorter than
\* 64 elements: the leading run is found (a strictly descending one is
\* reversed), then the rest is inserted by binary insertion.
RECURSIVE RunEnd(_, _, _)
RunEnd(arr, idx, descending) ==
    IF idx > Len(arr) THEN idx - 1
    ELSE LET order == SortCompare(arr[idx], arr[idx - 1])
         IN IF (descending /\ order >= 0) \/ (~descending /\ order < 0)
              THEN idx - 1
              ELSE RunEnd(arr, idx + 1, descending)

CountAndMakeRun(arr) ==
    LET descending == SortCompare(arr[2], arr[1]) < 0
        run == RunEnd(arr, 3, descending)
    IN [run |-> run,
        arr |-> IF descending
                  THEN [i \in 1..Len(arr) |->
                          IF i <= run THEN arr[run + 1 - i] ELSE arr[i]]
                  ELSE arr]

RECURSIVE InsertionPoint(_, _, _, _)
InsertionPoint(arr, pivot, left, right) ==
    IF left >= right THEN left
    ELSE LET mid == left + ((right - left) \div 2)
         IN IF SortCompare(pivot, arr[mid]) < 0
              THEN InsertionPoint(arr, pivot, left, mid)
              ELSE InsertionPoint(arr, pivot, mid + 1, right)

InsertAt(arr, start, left) ==
    [i \in 1..Len(arr) |->
        IF i < left \/ i > start THEN arr[i]
        ELSE IF i = left THEN arr[start]
        ELSE arr[i - 1]]

RECURSIVE BinaryInsertionSort(_, _)
BinaryInsertionSort(arr, start) ==
    IF start > Len(arr) THEN arr
    ELSE BinaryInsertionSort(
           InsertAt(arr, start, InsertionPoint(arr, arr[start], 1, start)),
           start + 1)

\* line 192: imageDetails.sort(comparator)
ArraySort(arr) ==
    IF Len(arr) < 2 THEN arr
    ELSE LET r == CountAndMakeRun(arr)
         IN BinaryInsertionSort(r.arr, r.run + 1)

\* ------------------------------------------------------------------------
\* Canvas geometry and placements (route.ts:204-237)
\* ------------------------------------------------------------------------
Max2(a, b) == IF a >= b THEN a ELSE b

\* The canvas width taken from the first page alone.
MaxWidthFirst(details) == details[1].width

\* line 205: Math.max(...imageDetails.map(img => img.width))
RECURSIVE MaxWidth(_)
MaxWidth(details) ==
    IF Len(details) = 1 THEN details[1].width
    ELSE Max2(details[1].width, MaxWidth(Tail(details)))

\* The reduce that leaves the last page out.
RECURSIVE TotalHeightShort(_)
TotalHeightShort(details) ==
    IF Len(details) <= 1 THEN 0
    ELSE details[1].height + TotalHeightShort(Tail(details))

\* line 209: imageDetails.reduce((sum, img) => sum + img.height, 0)
RECURSIVE TotalHeight(_)
TotalHeight(details) ==
    IF details = <<>> THEN 0
    ELSE details[1].height + TotalHeight(Tail(details))

\* line 227: Math.floor((maxWidth - img.width) / 2)
Left(canvasWidth, width) == (canvasWidth - width) \div 2

\* The running offset advanced by the page's width.
NextYWidth(currentY, img) == currentY + img.width

\* line 236: currentY += img.height
NextY(currentY, img) == currentY + img.height

\* lines 220-237: the placement loop
RECURSIVE PlaceFrom(_, _, _, _, _)
PlaceFrom(details, canvasWidth, i, currentY, acc) ==
    IF i > Len(details) THEN acc
    ELSE PlaceFrom(details, canvasWidth, i + 1, NextY(currentY, details[i]),
                   Append(acc, [input |-> details[i].name,
                                top |-> currentY,
                                left |-> Left(canvasWidth, details[i].width)]))

CompositeImages(details, canvasWidth) == PlaceFrom(details, canvasWidth, 1, 0, <<>>)

\* ------------------------------------------------------------------------
\* Loading the page images (route.ts:173-189)
\* ------------------------------------------------------------------------
\* lines 177-183: what one metadata read yields for an uploaded file
ImageDetail(file) ==
    [name |-> file.name,
     width |-> IF file.meta = "noWidth" THEN 0 ELSE file.width,
     height |-> IF file.meta = "noHeight" THEN 0 ELSE file.height]

\* The load that keeps an unreadable image as a zero-sized entry.
LoadImagesKeepFailed(saved, bad) ==
    [threw |-> FALSE,
     details |-> [i \in 1..Len(saved) |->
                    IF i \in bad
                      THEN [name |-> saved[i].name, width |-> 0, height |-> 0]
                      ELSE ImageDetail(FileOf(saved[i].name))]]

\* lines 174-189: Promise.all over the metadata reads; `bad` are the images
\* whose read throws
LoadImages(saved, bad) ==
    [threw |-> bad # {},
     details |-> IF bad # {} THEN <<>>
                 ELSE [i \in 1..Len(saved) |-> ImageDetail(FileOf(saved[i].name))]]

\* ------------------------------------------------------------------------
\* Inputs
\* ------------------------------------------------------------------------
\* Names: a, A, B, z, aB, Ab and the trailer name.
PageNames == {<<97>>, <<65>>, <<66>>, <<122>>, <<97, 66>>, <<65, 98>>, Trailer}

Widths == {50, 75, 80}

Heights == {100, 150}

Metas == {"ok", "noWidth", "noHeight"}

\* Uploads that differ in their names only.
NamedUploads(n) ==
    {[i \in 1..n |-> [name |-> names[i], width |-> 50, height |-> 100, meta |-> "ok"]] :
        names \in [1..n -> PageNames]}

\* Uploads that differ in their dimensions and metadata; their names z, y, x, ...
\* fall in upload order.
SizedUploads(n) ==
    {[i \in 1..n |-> [name |-> <<123 - i>>, width |-> d[i][1], height |-> d[i][2],
                      meta |-> d[i][3]]] :
        d \in [1..n -> Widths \X Heights \X Metas]}

\* The pages of the specification's scenario: 50x100, 80x200, 60x150.
ScenarioUploads ==
    <<[name |-> <<97>>, width |-> 50, height |-> 100, meta |-> "ok"],
      [name |-> <<66>>, width |-> 80, height |-> 200, meta |-> "ok"],
      [name |-> <<122>>, width |-> 60, height |-> 150, meta |-> "ok"]>>

\* An encoder for which the two highest qualities are too large.
SteepEncoder ==
    [q \in Touched(MIN_QUALITY + 2) |->
        IF q > MIN_QUALITY + 1 THEN MAX_FILE_SIZE_BYTES + 1 ELSE MAX_FILE_SIZE_BYTES]

\* ------------------------------------------------------------------------
\* Initial states: the request has been parsed and its page files saved.
\* findOptimalQuality's locals hold their initial values (lines 313-316).
\* ------------------------------------------------------------------------
Start ==
    /\ pc = "load"
    /\ low = MIN_QUALITY
    /\ high = quality
    /\ bestQuality = MIN_QUALITY
    /\ bestFileSize = 0
    /\ attempts = <<>>
    /\ tempFile = {}
    /\ outputFile = {}
    /\ compressionResult = NoResult
    /\ response = NoResponse
    /\ imageDetails = <<>>
    /\ metadataFailed = FALSE
    /\ maxWidth = 0
    /\ totalHeight = 0
    /\ compositeImages = <<>>
    /\ requests = <<>>
    /\ files = {}
    /\ vercel = FALSE
    /\ sessionId = "s1"
    /\ pageFiles = {savedImages[i].name : i \in 1..Len(savedImages)}
    /\ delivered = NotDelivered
    /\ served = NoServe
    /\ upload = NoUpload

\* Every start quality and encoder, on the scenario's pages.
Init ==
    /\ quality \in StartQualities
    /\ sizeOf \in [Touched(quality) -> Sizes]
    /\ savedImages = ScenarioUploads
    /\ Start

\* Every list of uploads, on one start quality and encoder.
ComposeInit ==
    /\ quality = MIN_QUALITY + 2
    /\ sizeOf = SteepEncoder
    /\ \/ \E n \in 1..MaxPages : savedImages \in NamedUploads(n) \cup SizedUploads(n)
       \/ savedImages = ScenarioUploads
    /\ Start

\* lines 173-189: load the metadata of every saved image
LoadStep ==
    /\ pc = "load"
    /\ \E bad \in SUBSET (1..Len(savedImages)) :
        LET r == LoadImages(savedImages, bad) IN
        /\ metadataFailed' = (bad # {})
        /\ imageDetails' = r.details
        /\ pc' = IF r.threw THEN "catch" ELSE "sort"
    /\ UNCHANGED <<concVars, restVars, pageFiles>>
    /\ UNCHANGED <<quality, sizeOf, low, high, bestQuality, bestFileSize, attempts,
                   tempFile, outputFile, compressionResult, response,
                   savedImages, maxWidth, totalHeight, compositeImages>>

\* lines 191-202: order the pages
SortStep ==
    /\ pc = "sort"
    /\ imageDetails' = ArraySort(imageDetails)
    /\ pc' = "layout"
    /\ UNCHANGED <<concVars, restVars, pageFiles>>
    /\ UNCHANGED <<quality, sizeOf, low, high, bestQuality, bestFileSize, attempts,
                   tempFile, outputFile, compressionResult, response,
                   savedImages, metadataFailed, maxWidth, totalHeight,
                   compositeImages>>

\* lines 204-237: canvas size and placements
LayoutStep ==
    /\ pc = "layout"
    /\ maxWidth' = MaxWidth(imageDetails)
    /\ totalHeight' = TotalHeight(imageDetails)
    /\ compositeImages' = CompositeImages(imageDetails, MaxWidth(imageDetails))
    /\ pc' = "first"
    /\ UNCHANGED <<concVars, restVars, pageFiles>>
    /\ UNCHANGED <<quality, sizeOf, low, high, bestQuality, bestFileSize, attempts,
                   tempFile, outputFile, compressionResult, response,
                   savedImages, imageDetails, metadataFailed>>

\* lines 319-323: the first encode, at the requested quality
FirstAttempt ==
    /\ pc = "first"
    /\ \E r \in CreateStitchedImage(high, tempFile, outputFile) :
        /\ attempts' = Append(attempts, Attempt("first", r))
        /\ tempFile' = r.tempFile
        /\ outputFile' = r.outputFile
        /\ IF r.threw
             THEN pc' = "catch" /\ UNCHANGED compressionResult
             ELSE IF r.success
               THEN /\ compressionResult' = EarlyResult(high, r.fileSize)
                    /\ pc' = "respond"
               ELSE pc' = "loop" /\ UNCHANGED compressionResult
    /\ UNCHANGED pageVars
    /\ UNCHANGED <<concVars, restVars, pageFiles>>
    /\ UNCHANGED <<quality, sizeOf, low, high, bestQuality, bestFileSize, response>>

\* lines 326-342: one iteration of the binary search that encodes
LoopStep ==
    /\ pc = "loop"
    /\ low <= high
    /\ ~BreakGuard(Mid(low, high), bestQuality)
    /\ LET mid == Mid(low, high) IN
       \E r \in CreateStitchedImage(mid, tempFile, outputFile) :
        /\ attempts' = Append(attempts, Attempt("loop", r))
        /\ tempFile' = r.tempFile
        /\ outputFile' = r.outputFile
        /\ IF r.threw
             THEN /\ pc' = "catch"
                  /\ UNCHANGED <<low, high, bestQuality, bestFileSize>>
             ELSE LET n == IF r.success
                             THEN OnSuccess(mid, r.fileSize, low, high, bestQuality)
                             ELSE OnFailure(mid, low, high, bestQuality, bestFileSize)
                  IN /\ pc' = "loop"
                     /\ low' = n.low
                     /\ high' = n.high
                     /\ bestQuality' = n.bestQuality
                     /\ bestFileSize' = n.bestFileSize
    /\ UNCHANGED pageVars
    /\ UNCHANGED <<concVars, restVars, pageFiles>>
    /\ UNCHANGED <<quality, sizeOf, compressionResult, response>>

\* lines 326 and 329: the loop ends (low > high, or the break)
LoopExit ==
    /\ pc = "loop"
    /\ (low > high \/ BreakGuard(Mid(low, high), bestQuality))
    /\ pc' = "after"
    /\ UNCHANGED pageVars
    /\ UNCHANGED <<concVars, restVars, pageFiles>>
    /\ UNCHANGED <<quality, sizeOf, low, high, bestQuality, bestFileSize,
                   attempts, tempFile, outputFile, compressionResult, response>>

\* lines 344-358: after the loop
AfterLoop ==
    /\ pc = "after"
    /\ IF FoundBest(bestQuality)
         THEN IF NeedsReencode(bestQuality, high)
                THEN \E r \in CreateStitchedImage(bestQuality, tempFile, outputFile) :
                       /\ attempts' = Append(attempts, Attempt("reencode", r))
                       /\ tempFile' = r.tempFile
                       /\ outputFile' = r.outputFile
                       /\ IF r.threw
                            THEN pc' = "catch" /\ UNCHANGED compressionResult
                            ELSE /\ pc' = "respond"
                                 /\ compressionResult' =
                                      SearchResult(bestQuality, bestFileSize)
                ELSE /\ pc' = "respond"
                     /\ compressionResult' = SearchResult(bestQuality, bestFileSize)
                     /\ UNCHANGED <<attempts, tempFile, outputFile>>
         ELSE \E r \in CreateStitchedImage(MIN_QUALITY, tempFile, outputFile) :
                /\ attempts' = Append(attempts, Attempt("fallback", r))
                /\ tempFile' = r.tempFile
                /\ outputFile' = r.outputFile
                /\ IF r.threw
                     THEN pc' = "catch" /\ UNCHANGED compressionResult
                     ELSE /\ pc' = "respond"
                          /\ compressionResult' = FallbackResult(r.fileSize)
    /\ UNCHANGED pageVars
    /\ UNCHANGED <<concVars, restVars, pageFiles>>
    /\ UNCHANGED <<quality, sizeOf, low, high, bestQuality, bestFileSize, response>>

\* lines 369-387: the saved pages are unlinked in upload order inside one try;
\* the first unlink that finds its file gone ends the loop.
RECURSIVE UnlinkSaved(_, _, _)
UnlinkSaved(saved, i, onDisk) ==
    IF i > Len(saved) THEN onDisk
    ELSE IF saved[i].name \notin onDisk THEN onDisk
    ELSE UnlinkSaved(saved, i + 1, onDisk \ {saved[i].name})

\* lines 363-399: the success response
Respond ==
    /\ pc = "respond"
    /\ response' = [status |-> 200, quality |-> compressionResult.quality,
                    fileSize |-> SizeMB(compressionResult.fileSize)]
    /\ pc' = "done"
    /\ UNCHANGED pageVars
    /\ pageFiles' = UnlinkSaved(savedImages, 1, pageFiles)
    /\ UNCHANGED <<concVars, restVars>>
    /\ UNCHANGED <<quality, sizeOf, low, high, bestQuality, bestFileSize,
                   attempts, tempFile, outputFile, compressionResult>>

\* lines 401-406: the catch block
CatchError ==
    /\ pc = "catch"
    /\ response' = [status |-> 500, quality |-> 0, fileSize |-> 0]
    /\ pc' = "done"
    /\ UNCHANGED pageVars
    /\ UNCHANGED <<concVars, restVars, pageFiles>>
    /\ UNCHANGED <<quality, sizeOf, low, high, bestQuality, bestFileSize,
                   attempts, tempFile, outputFile, compressionResult>>

Next ==
    \/ LoadStep
    \/ SortStep
    \/ LayoutStep
    \/ FirstAttempt
    \/ LoopStep
    \/ LoopExit
    \/ AfterLoop
    \/ Respond
    \/ CatchError

Spec == Init /\ [][Next]_vars

\* The handler is one sequential async function: the runtime keeps running it.
FairSpec == Spec /\ WF_vars(Next)

\* The same handler, over every list of uploaded pages.
ComposeSpec == ComposeInit /\ [][Next]_vars

\* ------------------------------------------------------------------------
\* Two requests in flight: the paths they write (lines 29-64, 140-171, 244)
\* ------------------------------------------------------------------------
MaxUploads == 2

\* os.tmpdir() joined with 'pdf2limage' (line 31).
TempDirectory == "/tmp/pdf2limage"

\* path.join of a directory and a name without separators.
Join(dir, name) == dir \o "/" \o name

\* getOutputDirectory (lines 48-64).
OutputDirectory == Join(TempDirectory, "output")

\* Line 141.
SessionTempDir(id) == Join(TempDirectory, id)

\* Line 155.
ImagePath(id, fileName) == Join(SessionTempDir(id), fileName)

\* Line 170.
OutputFilename(id) == "stitched-" \o id \o ".png"

\* Line 171.
OutputPath(id) == Join(OutputDirectory, OutputFilename(id))

\* Line 244.
OutputTempPath(id) == OutputPath(id) \o ".temp.png"

\* The session ids a client may send: any non-empty string (lines 113-117).
SessionIds == {"s1", "s2", "s2.png.temp", "output"}

\* The names a client may give its files.
UploadNames == {"page-001.png", "stitched-s2.png"}

UploadLists == UNION {[1..n -> UploadNames] : n \in 1..MaxUploads}

Exists(path) == \E f \in files : f.path = path

WriterOf(path) == (CHOOSE f \in files : f.path = path).writer

\* The files after request r wrote path.
WriteFile(path, r) == {f \in files : f.path # path} \cup {[path |-> path, writer |-> r]}

\* The files after path was unlinked.
Unlink(path) == {f \in files : f.path # path}

\* Request r touches, with operation op, a file that the other request wrote.
Touch(r, path, op) ==
    IF Exists(path) /\ WriterOf(path) # r THEN {op} ELSE {}

\* Two requests that have been parsed and have written nothing yet.
TwoRequests(ids, ups) ==
    [r \in 1..2 |->
        [sessionId |-> ids[r], uploads |-> ups[r], pc |-> "save",
         saved |-> 0, cleaned |-> 0, written |-> {},
         foreign |-> {}, status |-> 0, artifact |-> 0]]

\* The single-request model at rest, but for the upload-image request.
SoloQuiet ==
    /\ quality = MIN_QUALITY + 2
    /\ sizeOf = SteepEncoder
    /\ savedImages = ScenarioUploads
    /\ pc = "load"
    /\ low = MIN_QUALITY
    /\ high = quality
    /\ bestQuality = MIN_QUALITY
    /\ bestFileSize = 0
    /\ attempts = <<>>
    /\ tempFile = {}
    /\ outputFile = {}
    /\ compressionResult = NoResult
    /\ response = NoResponse
    /\ imageDetails = <<>>
    /\ metadataFailed = FALSE
    /\ maxWidth = 0
    /\ totalHeight = 0
    /\ compositeImages = <<>>
    /\ vercel = FALSE
    /\ sessionId = "s1"
    /\ pageFiles = {}
    /\ delivered = NotDelivered
    /\ served = NoServe

\* The single-request model at rest.
SoloIdle == SoloQuiet /\ upload = NoUpload

\* Two requests with distinct session ids.
ConcInit ==
    /\ \E ids \in [1..2 -> SessionIds], ups \in [1..2 -> UploadLists] :
         /\ ids[1] # ids[2]
         /\ requests = TwoRequests(ids, ups)
    /\ files = {}
    /\ SoloIdle

\* The session ids of two requests, of which the second may reuse the first's.
ReusedSessionIds == {"s1", "s2"}

\* Two requests whose session ids may be the same.
ReuseInit ==
    /\ \E ids \in [1..2 -> ReusedSessionIds], ups \in [1..2 -> UploadLists] :
         requests = TwoRequests(ids, ups)
    /\ files = {}
    /\ SoloIdle

\* The single-request state, which the two-request steps leave alone.
soloVars == <<quality, sizeOf, pc, low, high, bestQuality, bestFileSize, attempts,
              tempFile, outputFile, compressionResult, response, pageVars,
              restVars, pageFiles>>

\* Lines 153-161: one upload is written into the session's directory.
SaveImage(r) ==
    LET q == requests[r]
        path == ImagePath(q.sessionId, q.uploads[q.saved + 1]) IN
    /\ q.pc = "save"
    /\ files' = WriteFile(path, r)
    /\ requests' = [requests EXCEPT
                      ![r].saved = q.saved + 1,
                      ![r].written = q.written \cup {path},
                      ![r].foreign = q.foreign \cup Touch(r, path, "overwrite"),
                      ![r].pc = IF q.saved + 1 = Len(q.uploads) THEN "encode" ELSE "save"]
    /\ UNCHANGED soloVars

\* Lines 275-286: sharp reads the saved pages and writes the scratch file.
ToFile(r) ==
    LET q == requests[r]
        path == OutputTempPath(q.sessionId)
        inputs == {ImagePath(q.sessionId, q.uploads[i]) : i \in 1..Len(q.uploads)} IN
    /\ q.pc = "encode"
    /\ IF \A p \in inputs : Exists(p)
         THEN /\ files' = WriteFile(path, r)
              /\ requests' = [requests EXCEPT
                                ![r].written = q.written \cup {path},
                                ![r].foreign = q.foreign \cup Touch(r, path, "overwrite"),
                                ![r].pc = "stat"]
         ELSE /\ requests' = [requests EXCEPT ![r].pc = "done", ![r].status = 500]
              /\ UNCHANGED files
    /\ UNCHANGED soloVars

\* Lines 291-304: the scratch file is measured; it fits, or the search goes on
\* to another encode.
StatSync(r) ==
    LET q == requests[r]
        path == OutputTempPath(q.sessionId) IN
    /\ q.pc = "stat"
    /\ IF Exists(path)
         THEN \E fits \in BOOLEAN :
                requests' = [requests EXCEPT
                               ![r].foreign = q.foreign \cup Touch(r, path, "measure"),
                               ![r].pc = IF fits THEN "promote" ELSE "encode"]
         ELSE requests' = [requests EXCEPT ![r].pc = "done", ![r].status = 500]
    /\ UNCHANGED files
    /\ UNCHANGED soloVars

\* Line 296: the scratch file is copied to the output path.
Promote(r) ==
    LET q == requests[r]
        temp == OutputTempPath(q.sessionId)
        path == OutputPath(q.sessionId) IN
    /\ q.pc = "promote"
    /\ IF Exists(temp)
         THEN /\ files' = WriteFile(path, WriterOf(temp))
              /\ requests' = [requests EXCEPT
                                ![r].written = q.written \cup {path},
                                ![r].foreign = q.foreign \cup Touch(r, temp, "promote")
                                                 \cup Touch(r, path, "overwrite"),
                                ![r].pc = "unlink"]
         ELSE /\ requests' = [requests EXCEPT ![r].pc = "done", ![r].status = 500]
              /\ UNCHANGED files
    /\ UNCHANGED soloVars

\* Line 300: the scratch file is removed.
UnlinkTemp(r) ==
    LET q == requests[r]
        temp == OutputTempPath(q.sessionId) IN
    /\ q.pc = "unlink"
    /\ IF Exists(temp)
         THEN /\ files' = Unlink(temp)
              /\ requests' = [requests EXCEPT
                                ![r].foreign = q.foreign \cup Touch(r, temp, "delete"),
                                ![r].pc = "cleanup"]
         ELSE /\ requests' = [requests EXCEPT ![r].pc = "done", ![r].status = 500]
              /\ UNCHANGED files
    /\ UNCHANGED soloVars

\* Lines 369-387: the saved pages are removed one by one; the first failure
\* ends the loop.
CleanupImage(r) ==
    LET q == requests[r]
        path == ImagePath(q.sessionId, q.uploads[q.cleaned + 1]) IN
    /\ q.pc = "cleanup"
    /\ IF Exists(path)
         THEN /\ files' = Unlink(path)
              /\ requests' = [requests EXCEPT
                                ![r].cleaned = q.cleaned + 1,
                                ![r].foreign = q.foreign \cup Touch(r, path, "delete"),
                                ![r].pc = IF q.cleaned + 1 = Len(q.uploads)
                                            THEN "respond" ELSE "cleanup"]
         ELSE /\ requests' = [requests EXCEPT ![r].pc = "respond"]
              /\ UNCHANGED files
    /\ UNCHANGED soloVars

\* Lines 395-399: the success response; `artifact` records whose encode the
\* file at the reported output path holds at that moment.
RespondOk(r) ==
    /\ requests[r].pc = "respond"
    /\ requests' = [requests EXCEPT
                      ![r].pc = "done",
                      ![r].status = 200,
                      ![r].artifact = IF Exists(OutputPath(requests[r].sessionId))
                                        THEN WriterOf(OutputPath(requests[r].sessionId))
                                        ELSE 0]
    /\ UNCHANGED files
    /\ UNCHANGED soloVars

ConcNext ==
    \E r \in 1..2 :
        \/ SaveImage(r)
        \/ ToFile(r)
        \/ StatSync(r)
        \/ Promote(r)
        \/ UnlinkTemp(r)
        \/ CleanupImage(r)
        \/ RespondOk(r)

\* Two handlers whose awaits interleave.
ConcSpec == ConcInit /\ [][ConcNext]_vars

\* The same, for requests that may share a session id.
ReuseSpec == ReuseInit /\ [][ConcNext]_vars

\* ------------------------------------------------------------------------
\* The client: the uploads that handleConversion submits
\* (serve-image/route.ts lines 576-645)
\* ------------------------------------------------------------------------
MaxDocPages == 11

\* The client renders at most 30 pages.
PageLimit == 30

\* The quality the client asks for.
ClientQuality == 80

\* The decimal digits of a positive integer, as character codes.
RECURSIVE Decimal(_)
Decimal(n) == IF n < 10 THEN <<48 + n>> ELSE Decimal(n \div 10) \o <<48 + (n % 10)>>

\* `page-${index + 1}.png` for the page with number index + 1.
PageName(number) == <<112, 97, 103, 101, 45>> \o Decimal(number) \o <<46, 112, 110, 103>>

\* Math.min(totalPages, 30)
PagesToProcess(totalPages) == IF totalPages < PageLimit THEN totalPages ELSE PageLimit

\* The `images` entries of the form data: the rendered pages in page order,
\* then the trailer when its fetch answered ok.
ClientUploads(totalPages, fetchOk) ==
    [i \in 1..PagesToProcess(totalPages) |->
        [name |-> PageName(i), width |-> 50, height |-> 100, meta |-> "ok"]]
    \o (IF fetchOk
          THEN <<[name |-> Trailer, width |-> 80, height |-> 100, meta |-> "ok"]>>
          ELSE <<>>)

\* An encoder for which every quality above MIN_QUALITY + 1 is too large.
ClientEncoder ==
    [q \in Touched(ClientQuality) |->
        IF q > MIN_QUALITY + 1 THEN MAX_FILE_SIZE_BYTES + 1 ELSE MAX_FILE_SIZE_BYTES]

\* The stitch request of the client, for every document and both outcomes of
\* the trailer fetch.
ClientInit ==
    /\ quality = ClientQuality
    /\ sizeOf = ClientEncoder
    /\ \E totalPages \in 1..MaxDocPages, fetchOk \in BOOLEAN :
         savedImages = ClientUploads(totalPages, fetchOk)
    /\ Start

ClientSpec == ClientInit /\ [][Next]_vars

\* ------------------------------------------------------------------------
\* The whole stitch request: validation, the pipeline, the finally block, and
\* a serve-image request against the files it leaves
\* (stitch-images/route.ts lines 102-413, serve-image/route.ts lines 58-116)
\* ------------------------------------------------------------------------
\* getTempDirectory (lines 29-45), as path segments; os.tmpdir() is /tmp.
TempSegments == IF vercel THEN <<"tmp">> ELSE <<"tmp", "pdf2limage">>

\* getOutputDirectory (lines 48-64)
OutputSegments == TempSegments \o <<"output">>

\* path.join normalises its result: "." is dropped and ".." removes the
\* segment before it (nothing, at the root).
RECURSIVE NormalizeFrom(_, _, _)
NormalizeFrom(segments, i, acc) ==
    IF i > Len(segments) THEN acc
    ELSE IF segments[i] = "." THEN NormalizeFrom(segments, i + 1, acc)
    ELSE IF segments[i] = ".."
      THEN NormalizeFrom(segments, i + 1,
                         IF acc = <<>> THEN acc ELSE SubSeq(acc, 1, Len(acc) - 1))
    ELSE NormalizeFrom(segments, i + 1, Append(acc, segments[i]))

PathJoin(dir, relative) == NormalizeFrom(dir \o relative, 1, <<>>)

\* The name of an upload as a path segment.
FileNameOf(name) ==
    IF name = <<97>> THEN "a"
    ELSE IF name = <<66>> THEN "B"
    ELSE IF name = <<122>> THEN "z"
    ELSE "lastpic.png"

\* line 171, as path segments
OutputSegmentsOf(id) == OutputSegments \o <<OutputFilename(id)>>

\* getPublicPath (lines 67-79): the imageUrl of the success response. On
\* Vercel it is the serve-image route with path = `${sessionId}/${filename}`.
GetPublicPath(filename, id) ==
    [route |-> IF vercel THEN "/api/serve-image" ELSE "/temp", path |-> <<id, filename>>]

\* Files on the machine that the handlers did not write.
OtherFiles == {<<"etc", "passwd">>}

\* The files that exist.
Disk ==
    {PathJoin(TempSegments, <<sessionId, FileNameOf(name)>>) : name \in pageFiles}
    \cup (IF outputFile # {} THEN {OutputSegmentsOf(sessionId)} ELSE {})
    \cup (IF tempFile # {} THEN {OutputSegments \o <<OutputFilename(sessionId) \o ".temp.png">>}
          ELSE {})
    \cup OtherFiles

\* The directories that exist.
Directories ==
    {TempSegments, OutputSegments}
    \cup (IF pc # "validate" /\ sessionId # "" THEN {PathJoin(TempSegments, <<sessionId>>)} ELSE {})

\* serve-image GET (lines 58-116): path is the query parameter as segments,
\* <<>> when it is absent or empty.
ServeImage(path) ==
    LET inTemp == PathJoin(TempSegments, path)
        inOutput == PathJoin(OutputSegments, path)
        found == IF inTemp \in Disk \cup Directories THEN inTemp ELSE inOutput
    IN IF path = <<>> THEN [status |-> 400, file |-> <<>>]
       ELSE IF found \notin Disk \cup Directories THEN [status |-> 404, file |-> <<>>]
       ELSE IF found \in Directories THEN [status |-> 500, file |-> <<>>]
       ELSE [status |-> 200, file |-> found]

\* The values of the path parameter that are tried.
ServePaths ==
    {<<>>,
     <<"s1", "stitched-s1.png">>,
     <<"stitched-s1.png">>,
     <<"s1", "a">>,
     <<"s1">>,
     <<"missing.png">>,
     <<"..", "..", "etc", "passwd">>}

\* The identifiers that the finally block can resolve: the parameter of POST
\* and the module's own declarations. What the try block declares with const
\* or let (tempFilesToCleanup, line 152, among them) is local to that block.
FinallyScope ==
    {"request", "logger", "cleanupTempFiles", "getTempDirectory", "getOutputDirectory",
     "getPublicPath", "DEFAULT_QUALITY", "MIN_QUALITY", "MAX_FILE_SIZE_BYTES"}

\* The uploads of the request: none, one page, the scenario's pages, and two
\* uploads of one name.
RequestUploads ==
    {<<>>,
     <<ScenarioUploads[1]>>,
     ScenarioUploads,
     <<ScenarioUploads[1], ScenarioUploads[1]>>}

RequestInit ==
    /\ quality = MIN_QUALITY + 2
    /\ sizeOf = SteepEncoder
    /\ savedImages \in RequestUploads
    /\ vercel \in BOOLEAN
    /\ sessionId \in {"", "s1"}
    /\ pc = "validate"
    /\ low = MIN_QUALITY
    /\ high = quality
    /\ bestQuality = MIN_QUALITY
    /\ bestFileSize = 0
    /\ attempts = <<>>
    /\ tempFile = {}
    /\ outputFile = {}
    /\ compressionResult = NoResult
    /\ response = NoResponse
    /\ imageDetails = <<>>
    /\ metadataFailed = FALSE
    /\ maxWidth = 0
    /\ totalHeight = 0
    /\ compositeImages = <<>>
    /\ requests = <<>>
    /\ files = {}
    /\ pageFiles = {}
    /\ delivered = NotDelivered
    /\ served = NoServe
    /\ upload = NoUpload

\* lines 108-161: the fields are read and checked, the uploads are saved
ValidateStep ==
    /\ pc = "validate"
    /\ IF sessionId = "" \/ savedImages = <<>>
         THEN /\ response' = [status |-> 400, quality |-> 0, fileSize |-> 0]
              /\ pc' = "done"
              /\ UNCHANGED pageFiles
         ELSE /\ pageFiles' = {savedImages[i].name : i \in 1..Len(savedImages)}
              /\ pc' = "load"
              /\ UNCHANGED response
    /\ UNCHANGED <<quality, sizeOf, low, high, bestQuality, bestFileSize, attempts,
                   tempFile, outputFile, compressionResult, pageVars, concVars, restVars>>

\* lines 407-411: the finally block reads tempFilesToCleanup; when the name
\* resolves, cleanupTempFiles (lines 82-100) unlinks the files unless on Vercel
FinallyStep ==
    /\ pc = "done"
    /\ delivered = NotDelivered
    /\ IF "tempFilesToCleanup" \in FinallyScope
         THEN /\ delivered' = "response"
              /\ pageFiles' = IF vercel THEN pageFiles ELSE {}
         ELSE /\ delivered' = "ReferenceError"
              /\ UNCHANGED pageFiles
    /\ UNCHANGED <<quality, sizeOf, pc, low, high, bestQuality, bestFileSize, attempts,
                   tempFile, outputFile, compressionResult, response, pageVars, concVars,
                   vercel, sessionId, served, upload>>

\* serve-image GET, arriving at any moment
ServeStep ==
    /\ served = NoServe
    /\ \E path \in ServePaths :
         served' = [path |-> path,
                    status |-> ServeImage(path).status,
                    file |-> ServeImage(path).file,
                    afterSuccess |-> (pc = "done" /\ response.status = 200)]
    /\ UNCHANGED <<quality, sizeOf, pc, low, high, bestQuality, bestFileSize, attempts,
                   tempFile, outputFile, compressionResult, response, pageVars, concVars,
                   vercel, sessionId, delivered, upload, pageFiles>>

RequestNext ==
    \/ ValidateStep
    \/ LoadStep
    \/ SortStep
    \/ LayoutStep
    \/ FirstAttempt
    \/ LoopStep
    \/ LoopExit
    \/ AfterLoop
    \/ Respond
    \/ CatchError
    \/ FinallyStep
    \/ ServeStep

RequestSpec == RequestInit /\ [][RequestNext]_vars

\* ------------------------------------------------------------------------
\* The upload-image request (unnamed/part_000 lines 40-101)
\* ------------------------------------------------------------------------
\* What FormData.get returns: null for a field that is absent, else the
\* field's string or file.
Null == [type |-> "null"]

StringValue(s) == [type |-> "string", value |-> s]

FileValue == [type |-> "file"]

\* The operand of `!`: null and the empty string are falsy.
Truthy(v) == v.type = "file" \/ (v.type = "string" /\ v.value # "")

\* `pageIndex === undefined`
IsUndefined(v) == v.type = "undefined"

\* `${pageIndex}` in a template literal
TemplateString(v) == IF v.type = "null" THEN "null" ELSE v.value

\* line 45-55: the test of the three fields
MissingParameters(image, id, pageIndex) ==
    ~Truthy(image) \/ ~Truthy(id) \/ IsUndefined(pageIndex)

\* lines 61, 78: join(join(baseDir, sessionId), `page-${pageIndex}.png`)
UploadImagePath(id, pageIndex) ==
    PathJoin(TempSegments, <<TemplateString(id), "page-" \o TemplateString(pageIndex) \o ".png">>)

\* The values a client may send for each field, and its absence.
ImageFields == {Null, FileValue, StringValue("text")}

SessionIdFields == {Null, StringValue(""), StringValue("s1"), StringValue("s2")}

PageIndexFields == {Null, StringValue(""), StringValue("0"), StringValue("1"), StringValue("2")}

UploadInit ==
    /\ \E image \in ImageFields, id \in SessionIdFields, pageIndex \in PageIndexFields :
         upload = [pc |-> "validate", image |-> image, sessionId |-> id,
                   pageIndex |-> pageIndex, status |-> 0, written |-> {}]
    /\ requests = <<>>
    /\ files = {}
    /\ SoloQuiet

\* Everything but the upload-image request.
stitchVars == <<quality, sizeOf, pc, low, high, bestQuality, bestFileSize, attempts,
                tempFile, outputFile, compressionResult, response, pageVars, concVars,
                vercel, sessionId, delivered, served, pageFiles>>

\* lines 43-57: the fields are read and tested
UploadValidate ==
    /\ upload.pc = "validate"
    /\ upload' = IF MissingParameters(upload.image, upload.sessionId, upload.pageIndex)
                   THEN [upload EXCEPT !.pc = "done", !.status = 400]
                   ELSE [upload EXCEPT !.pc = "mkdir"]
    /\ UNCHANGED stitchVars

\* lines 59-75: the session directory is made; a failure is answered with 500
UploadMkdir ==
    /\ upload.pc = "mkdir"
    /\ \E ok \in BOOLEAN :
         upload' = IF ok THEN [upload EXCEPT !.pc = "write"]
                         ELSE [upload EXCEPT !.pc = "done", !.status = 500]
    /\ UNCHANGED stitchVars

\* lines 77-82: image.arrayBuffer() exists on a file only; writeFile may fail;
\* either failure goes to the catch block (lines 94-100)
UploadWrite ==
    /\ upload.pc = "write"
    /\ \E ok \in BOOLEAN :
         upload' = IF upload.image.type = "file" /\ ok
                     THEN [upload EXCEPT
                             !.pc = "respond",
                             !.written = {UploadImagePath(upload.sessionId, upload.pageIndex)}]
                     ELSE [upload EXCEPT !.pc = "done", !.status = 500]
    /\ UNCHANGED stitchVars

\* lines 84-92: the success response
UploadRespond ==
    /\ upload.pc = "respond"
    /\ upload' = [upload EXCEPT !.pc = "done", !.status = 200]
    /\ UNCHANGED stitchVars

UploadNext ==
    \/ UploadValidate
    \/ UploadMkdir
    \/ UploadWrite
    \/ UploadRespond

UploadSpec == UploadInit /\ [][UploadNext]_vars

\* ------------------------------------------------------------------------
\* Vocabulary of the properties
\* ------------------------------------------------------------------------
\* The encode at quality q fits under the ceiling.
Acceptable(q) == sizeOf[q] <= MAX_FILE_SIZE_BYTES

\* The closed interval [minQuality, startQuality] of the request.
Range == MIN_QUALITY..quality

\* The handler has returned a success response.
Succeeded == pc = "done" /\ response.status = 200

\* Nothing in the request threw: no metadata read, no createStitchedImage call.
NoThrow == ~metadataFailed /\ \A i \in 1..Len(attempts) : ~attempts[i].threw

\* The size function does not decrease as quality grows.
Monotone ==
    \A a, b \in DOMAIN sizeOf : a <= b => sizeOf[a] <= sizeOf[b]

\* Some encode of the request met the ceiling.
SomeSuccess == \E i \in 1..Len(attempts) : attempts[i].success

\* Smallest k with 2^k >= n.
RECURSIVE CeilLog2From(_, _, _)
CeilLog2From(n, k, p) == IF p >= n THEN k ELSE CeilLog2From(n, k + 1, 2 * p)

CeilLog2(n) == CeilLog2From(n, 0, 1)

\* ------------------------------------------------------------------------
\* C1: if the first encode, at startQuality, fits under the ceiling, it is the
\* only encode of the request, and the result reports startQuality with the
\* byte size of that encode.
\* ------------------------------------------------------------------------
C1_OneEncodeWhenStartFits ==
    (Len(attempts) >= 1 /\ ~attempts[1].threw /\ sizeOf[quality] <= MAX_FILE_SIZE_BYTES)
    => /\ Len(attempts) = 1
       /\ attempts[1].quality = quality
       /\ pc \in {"respond", "done"}
       /\ compressionResult = [quality |-> quality, fileSize |-> sizeOf[quality]]
       /\ pc = "done" => /\ response.status = 200
                         /\ response.quality = quality
                         /\ response.fileSize = SizeMB(sizeOf[quality])

C1_Witness ==
    /\ Succeeded
    /\ quality > MIN_QUALITY
    /\ sizeOf[quality] = MAX_FILE_SIZE_BYTES
    /\ Len(attempts) = 1

\* ------------------------------------------------------------------------
\* C2: with a size function non-decreasing in quality and minQuality <=
\* startQuality, whenever some quality of [minQuality, startQuality] fits, the
\* returned quality fits and no higher quality of the interval fits.
\* ------------------------------------------------------------------------
C2_ReturnsHighestAcceptable ==
    (/\ Succeeded
     /\ MIN_QUALITY <= quality
     /\ Monotone
     /\ \E q \in Range : Acceptable(q))
    => /\ response.quality \in Range
       /\ Acceptable(response.quality)
       /\ \A q \in Range : Acceptable(q) => q <= response.quality

C4_FallbackEncodesAtMinQuality ==
    (Succeeded /\ quality >= MIN_QUALITY /\ ~SomeSuccess)
    => /\ attempts[Len(attempts)].quality = MIN_QUALITY
       /\ compressionResult.fileSize = sizeOf[MIN_QUALITY]

\* ------------------------------------------------------------------------
\* C5: whenever the request returns a success result, the final output path
\* holds the bytes of an encode this request performed at the reported
\* final quality.
\* ------------------------------------------------------------------------
C5_FinalArtifactPersisted ==
    Succeeded
    => /\ outputFile = {response.quality}
       /\ \E i \in 1..Len(attempts) : attempts[i].quality = response.quality

\* ------------------------------------------------------------------------
\* C6: on every success result the reported byte size is the size measured
\* for the encode at the reported final quality, never a placeholder.
\* ------------------------------------------------------------------------
C6_ReportedSizeIsMeasured ==
    Succeeded
    => /\ compressionResult.fileSize = sizeOf[compressionResult.quality]
       /\ response.fileSize = SizeMB(sizeOf[response.quality])

\* ------------------------------------------------------------------------
\* C7: for minQuality <= startQuality and every size function the request
\* terminates, and it performs at most
\* 1 + ceil(log2(startQuality - minQuality + 1)) + 1 encodes.
\* ------------------------------------------------------------------------
C7_TerminatesWithinLogAttempts ==
    (quality >= MIN_QUALITY)
    => /\ [](Len(attempts) <= 2 + CeilLog2(quality - MIN_QUALITY + 1))
       /\ <>(pc = "done")

C7_Witness ==
    /\ pc = "done"
    /\ quality >= MIN_QUALITY + 3
    /\ Len(attempts) = 2 + CeilLog2(quality - MIN_QUALITY + 1)

\* ------------------------------------------------------------------------
\* C8: once an encode of the search loop at some quality has succeeded (that
\* quality became the confirmed best), no later encode of the loop is at that
\* same quality.
\* ------------------------------------------------------------------------
C8_LoopNeverRepeatsConfirmedBest ==
    \A i, j \in 1..Len(attempts) :
        (/\ i < j
         /\ attempts[i].phase = "loop"
         /\ attempts[i].success
         /\ attempts[j].phase = "loop")
        => attempts[j].quality # attempts[i].quality

C8_Witness ==
    \E i, j \in 1..Len(attempts) :
        /\ i < j
        /\ attempts[i].phase = "loop"
        /\ attempts[i].success
        /\ attempts[j].phase = "loop"
        /\ bestQuality = attempts[i].quality

\* ------------------------------------------------------------------------
\* C9: after the loop, with a confirmed successful best, one more encode at
\* best is performed exactly when the last encode performed was not at best;
\* with no success at all, no such re-encode happens.
\* ------------------------------------------------------------------------
\* The encodes of the request before any re-encode after the loop.
SearchAttempts == SelectSeq(attempts, LAMBDA a : a.phase \in {"first", "loop"})

Reencoded == \E i \in 1..Len(attempts) : attempts[i].phase = "reencode"

LoopSuccess == \E i \in 1..Len(attempts) : attempts[i].phase = "loop" /\ attempts[i].success

C9_ReencodeIffLastNotBest ==
    (/\ pc \in {"respond", "catch", "done"}
     /\ quality >= MIN_QUALITY
     /\ Len(attempts) >= 1
     /\ ~attempts[1].threw
     /\ ~attempts[1].success
     /\ \A i \in 1..Len(attempts) : attempts[i].phase = "loop" => ~attempts[i].threw)
    => IF LoopSuccess
         THEN Reencoded <=>
                (SearchAttempts[Len(SearchAttempts)].quality # bestQuality)
         ELSE ~Reencoded

\* ------------------------------------------------------------------------
\* C10: when the request has returned, on every exit path, no scratch file
\* '<outputPath>.temp.png' remains on disk.
\* ------------------------------------------------------------------------
C10_NoScratchFileRemains ==
    pc = "done" => tempFile = {}

\* ------------------------------------------------------------------------
\* Vocabulary of the page properties
\* ------------------------------------------------------------------------
\* imageDetails holds the sorted pages.
Ordered == imageDetails # <<>> /\ pc \notin {"load", "sort"}

\* The canvas and the placements have been computed.
Laid == compositeImages # <<>>

\* The pages as loaded, before the sort.
AsLoaded == LoadImages(savedImages, {}).details

TrailerCount == Cardinality({i \in 1..Len(savedImages) : savedImages[i].name = Trailer})

RECURSIVE SumHeightsTo(_)
SumHeightsTo(n) == IF n = 0 THEN 0 ELSE SumHeightsTo(n - 1) + imageDetails[n].height

\* ------------------------------------------------------------------------
\* C11: when exactly one submitted image is named 'lastpic.png', whatever its
\* position and whatever the other names, it is last in the sorted order.
\* ------------------------------------------------------------------------
C11_TrailerIsLast ==
    (Ordered /\ TrailerCount = 1)
    => imageDetails[Len(imageDetails)].name = Trailer

C11_Witness ==
    /\ Ordered
    /\ TrailerCount = 1
    /\ Len(savedImages) = 3
    /\ savedImages[1].name = Trailer
    /\ savedImages[2].name = <<122>>
    /\ imageDetails[3].name = Trailer

\* ------------------------------------------------------------------------
\* C12 as stated: the pages other than the trailer are in ascending order of
\* their names compared character code by character code.
\* ------------------------------------------------------------------------
C12_CodePointOrder ==
    Ordered
    => \A i, j \in 1..Len(imageDetails) :
         (/\ i < j
          /\ imageDetails[i].name # Trailer
          /\ imageDetails[j].name # Trailer)
         => CodePointCompare(imageDetails[i].name, imageDetails[j].name) <= 0

\* C12 as amended: the pages other than the trailer are in ascending order of
\* their names under localeCompare: alphabetical whatever the case, and
\* between names that differ in case alone, lower case first.
C12_LocaleOrder ==
    Ordered
    => \A i, j \in 1..Len(imageDetails) :
         (/\ i < j
          /\ imageDetails[i].name # Trailer
          /\ imageDetails[j].name # Trailer)
         => LocaleCompare(imageDetails[i].name, imageDetails[j].name) <= 0

C12_Witness ==
    /\ Ordered
    /\ Len(imageDetails) = 3
    /\ imageDetails # AsLoaded
    /\ imageDetails[1].name = <<97>>
    /\ imageDetails[2].name = <<65>>
    /\ imageDetails[3].name = <<66>>

\* ------------------------------------------------------------------------
\* C13: sorting the sorted pages again leaves their order unchanged, for
\* every list of uploads, also with the trailer name and with duplicates.
\* ------------------------------------------------------------------------
C13_SortIdempotent ==
    Ordered => ArraySort(imageDetails) = imageDetails

C13_Witness ==
    /\ Ordered
    /\ imageDetails # AsLoaded
    /\ TrailerCount = 2
    /\ ArraySort(imageDetails) = imageDetails

\* ------------------------------------------------------------------------
\* C14: the canvas height is the exact sum of the heights of the loaded
\* pages and the canvas width is the largest of their widths.
\* ------------------------------------------------------------------------
C14_CanvasSize ==
    Laid
    => /\ totalHeight = SumHeightsTo(Len(imageDetails))
       /\ \A i \in 1..Len(imageDetails) : imageDetails[i].width <= maxWidth
       /\ \E i \in 1..Len(imageDetails) : imageDetails[i].width = maxWidth

C14_Witness ==
    /\ Laid
    /\ Len(imageDetails) = 3
    /\ totalHeight = 350
    /\ maxWidth = 80
    /\ imageDetails[1].width = 50

\* ------------------------------------------------------------------------
\* C15: every placement has left = floor((canvasWidth - pageWidth) / 2),
\* left >= 0 and left + pageWidth <= canvasWidth.
\* ------------------------------------------------------------------------
C15_PlacementLeft ==
    Laid
    => \A i \in 1..Len(compositeImages) :
         /\ 2 * compositeImages[i].left <= maxWidth - imageDetails[i].width
         /\ 2 * compositeImages[i].left + 1 >= maxWidth - imageDetails[i].width
         /\ compositeImages[i].left >= 0
         /\ compositeImages[i].left + imageDetails[i].width <= maxWidth

C15_Witness ==
    /\ Laid
    /\ maxWidth = 80
    /\ \E i \in 1..Len(compositeImages) :
         imageDetails[i].width = 75 /\ compositeImages[i].left = 2

\* ------------------------------------------------------------------------
\* C16: in the ordered sequence the first top is 0, each next top is the
\* previous top plus the previous page's height, and the last top plus the
\* last height is the canvas height.
\* ------------------------------------------------------------------------
C16_PlacementTop ==
    Laid
    => /\ Len(compositeImages) = Len(imageDetails)
       /\ compositeImages[1].top = 0
       /\ \A i \in 1..(Len(compositeImages) - 1) :
            compositeImages[i + 1].top = compositeImages[i].top + imageDetails[i].height
       /\ compositeImages[Len(compositeImages)].top
            + imageDetails[Len(imageDetails)].height = totalHeight

\* The scenario: heights 100, 200, 150 and widths 50, 80, 60.
C16_Witness ==
    /\ Laid
    /\ savedImages = ScenarioUploads
    /\ [i \in 1..3 |-> compositeImages[i].top] = <<0, 100, 300>>
    /\ [i \in 1..3 |-> compositeImages[i].left] = <<15, 0, 10>>
    /\ maxWidth = 80
    /\ totalHeight = 450

\* ------------------------------------------------------------------------
\* C17: if the metadata read of any one submitted image fails, the request
\* ends with an error result, performs no encode and writes no final
\* artifact.
\* ------------------------------------------------------------------------
C17_LoadAllOrNothing ==
    metadataFailed
    => /\ pc \in {"catch", "done"}
       /\ attempts = <<>>
       /\ outputFile = {}
       /\ pc = "done" => response.status = 500

C17_Witness ==
    /\ metadataFailed
    /\ Len(savedImages) >= 2
    /\ pc = "done"
    /\ response.status = 500

\* ------------------------------------------------------------------------
\* C18: whenever some placement puts a page outside the canvas, composition
\* fails: no encode of the request is accepted and the request ends with an
\* error result.
\* ------------------------------------------------------------------------
\* Placement i puts the pixels of its page outside the canvas.
OutsideCanvas(i) ==
    LET file == FileOf(compositeImages[i].input) IN
    \/ compositeImages[i].left < 0
    \/ compositeImages[i].top < 0
    \/ compositeImages[i].left + file.width > maxWidth
    \/ compositeImages[i].top + file.height > totalHeight

C18_OutOfBoundsPlacementFails ==
    (Laid /\ \E i \in 1..Len(compositeImages) : OutsideCanvas(i))
    => /\ \A k \in 1..Len(attempts) : attempts[k].threw
       /\ pc = "done" => response.status = 500

\* ------------------------------------------------------------------------
\* C19: if the write of the final artifact fails, the request ends with an
\* error result, never with a success result.
\* ------------------------------------------------------------------------
C19_FailedFinalWriteIsError ==
    \A k \in 1..Len(attempts) :
        attempts[k].fault = "writeFile"
        => /\ k = Len(attempts)
           /\ ~attempts[k].success
           /\ pc \in {"catch", "done"}
           /\ pc = "done" => response.status = 500

C19_Witness ==
    /\ pc = "done"
    /\ response.status = 500
    /\ Len(attempts) >= 2
    /\ attempts[Len(attempts)].fault = "writeFile"

\* ------------------------------------------------------------------------
\* C20: for two requests in flight with distinct session ids, under every
\* interleaving, the sets of paths they write (saved pages, scratch file,
\* final artifact) are disjoint, and neither measures, promotes, overwrites
\* or deletes a file the other wrote.
\* ------------------------------------------------------------------------
C20_DisjointPaths ==
    (Len(requests) = 2 /\ requests[1].sessionId # requests[2].sessionId)
    => /\ requests[1].written \cap requests[2].written = {}
       /\ requests[1].foreign = {}
       /\ requests[2].foreign = {}

\* ------------------------------------------------------------------------
\* C21: every conversion that is stitched submits the trailer image
\* 'lastpic.png' and has it as the last image of the output; no conversion
\* ends in success without the trailer.
\* ------------------------------------------------------------------------
C21_TrailerAlwaysStitched ==
    Succeeded
    => /\ \E i \in 1..Len(savedImages) : savedImages[i].name = Trailer
       /\ compositeImages[Len(compositeImages)].input = Trailer

\* ------------------------------------------------------------------------
\* C27: for a document of n pages, 1 <= n <= 30, the pages stand in the
\* stitched image in page order 1..n from top to bottom, under the names
\* the client gives them and the server's sort by name.
\* ------------------------------------------------------------------------
\* The pages of the document among the uploads.
DocPages == Cardinality({i \in 1..Len(savedImages) : savedImages[i].name # Trailer})

C27_PagesInDocumentOrder ==
    Laid
    => \A i \in 1..DocPages : compositeImages[i].input = PageName(i)

\* ------------------------------------------------------------------------
\* C23: the comparator is antisymmetric: for all entries a and b,
\* compare(a, b) and compare(b, a) have opposite signs or are both zero;
\* two entries that both carry the trailer name compare as equal.
\* ------------------------------------------------------------------------
C23_ComparatorAntisymmetric ==
    \A i, j \in 1..Len(imageDetails) :
        /\ Sign(SortCompare(imageDetails[i], imageDetails[j]))
             = -Sign(SortCompare(imageDetails[j], imageDetails[i]))
        /\ (imageDetails[i].name = Trailer /\ imageDetails[j].name = Trailer)
             => SortCompare(imageDetails[i], imageDetails[j]) = 0

\* ------------------------------------------------------------------------
\* C24: within one request no quality is encoded twice; after the first
\* encode at startQuality has failed, the search loop does not encode at
\* startQuality again.
\* ------------------------------------------------------------------------
C24_NoQualityEncodedTwice ==
    (NoThrow /\ Monotone /\ quality >= MIN_QUALITY)
    => \A i, j \in 1..Len(attempts) :
         i < j => attempts[i].quality # attempts[j].quality

\* ------------------------------------------------------------------------
\* C25: for every requested start quality, also one below the minimum
\* quality, every encode and the reported final quality are at most the
\* requested start quality.
\* ------------------------------------------------------------------------
C25_NeverAboveRequestedQuality ==
    /\ \A i \in 1..Len(attempts) : attempts[i].quality <= quality
    /\ Succeeded => response.quality <= quality

\* ------------------------------------------------------------------------
\* C22: on the serve-image deployment, after a successful stitch request, a
\* GET of the returned imageUrl finds the artifact the handler wrote at
\* stitched-<sessionId>.png and returns it, not 404.
\* ------------------------------------------------------------------------
ReturnedPath == GetPublicPath(OutputFilename(sessionId), sessionId).path

C22_ImageUrlResolves ==
    (vercel /\ served # NoServe /\ served.afterSuccess /\ served.path = ReturnedPath)
    => /\ served.status = 200
       /\ served.file = OutputSegmentsOf(sessionId)

\* ------------------------------------------------------------------------
\* C29: for every value of the path parameter serve-image returns only files
\* inside the temp directory or the output directory; it answers 400 when
\* the parameter is absent and 404 when the path exists in neither.
\* ------------------------------------------------------------------------
Inside(dir, file) == Len(file) > Len(dir) /\ SubSeq(file, 1, Len(dir)) = dir

C29_ServesOnlyTempAndOutput ==
    served # NoServe
    => /\ served.path = <<>> => served.status = 400
       /\ served.status = 200
            => Inside(TempSegments, served.file) \/ Inside(OutputSegments, served.file)

\* ------------------------------------------------------------------------
\* C30: on every exit path of the stitch handler (400, success, 500) the
\* caller receives the response chosen on that path: the finally block
\* completes without raising; outside Vercel no uploaded page image of the
\* request is left on disk.
\* ------------------------------------------------------------------------
C30_FinallyDeliversResponse ==
    delivered # NotDelivered
    => /\ delivered = "response"
       /\ ~vercel => pageFiles = {}

\* ------------------------------------------------------------------------
\* C26: under every interleaving of stitch requests, also of requests that
\* reuse one session id, the artifact found at the path a request reports
\* was written by one of that request's own encodes.
\* ------------------------------------------------------------------------
C26_ReportedArtifactIsOwn ==
    \A r \in 1..Len(requests) :
        requests[r].status = 200 => requests[r].artifact = r

\* ------------------------------------------------------------------------
\* C28: an upload-image request that lacks one of the fields image,
\* sessionId or pageIndex is answered with 400 and writes no file; a file is
\* written only when all three fields are present. (A request that fails on
\* the file system is answered with 500 and is left aside.)
\* ------------------------------------------------------------------------
Lacking ==
    upload.image = Null \/ upload.sessionId = Null \/ upload.pageIndex = Null

C28_UploadRequiresAllFields ==
    upload # NoUpload
    => /\ upload.written # {} => ~Lacking
       /\ (upload.pc = "done" /\ Lacking /\ upload.status # 500) => upload.status = 400

====
